---- MODULE Spec2Model ----
(***************************************************************************)
(* Winsert Savings Calculator (src/app.py): a Streamlit wizard that writes *)
(* building inputs into an Excel workbook through Microsoft Graph, asks    *)
(* for recalculation and reads the results back.                           *)
(*                                                                         *)
(* One action of the model is one run of the script (one user event):      *)
(* token acquisition, create_session, the cached lookup read, the step     *)
(* that is rendered and the handler of the button that was pressed.        *)
(* Every Graph request of a run is appended to the run's log; at most one  *)
(* request of a run is answered with an HTTP error (failAt).               *)
(***************************************************************************)
EXTENDS Integers, Sequences, FiniteSets, TLC

(***************************************************************************)
(* Bounds of the model.                                                    *)
(***************************************************************************)
\* editing sessions the server hands out before the model stops opening more
MaxSid == 2
\* numeric form fields range over 0..MaxNum
MaxNum == 1
\* requests answered with an error in one behaviour
MaxFaults == 1
\* rows and columns of the lookup grids of SpecLookup
MaxRows == 3
MaxCols == 2

(***************************************************************************)
(* Python values.  A text is a sequence of tokens, the token " " being     *)
(* whitespace; a value is None, a text or a number.                        *)
(***************************************************************************)
PyNone == [t |-> "none", s |-> <<>>, n |-> 0]
PyStr(s) == [t |-> "str", s |-> s, n |-> 0]
PyNum(n) == [t |-> "num", s |-> <<>>, n |-> n]
\* what a read returns when the server does not guarantee the value
Unspecified == [t |-> "unspecified", s |-> <<>>, n |-> 0]

\* bool(v)
Truthy(v) ==
    CASE v.t = "none" -> FALSE
      [] v.t = "str" -> v.s # <<>>
      [] v.t = "num" -> v.n # 0
      [] OTHER -> TRUE

\* str(v)
StrOf(v) ==
    CASE v.t = "str" -> v.s
      [] v.t = "num" -> <<ToString(v.n)>>
      [] v.t = "none" -> <<"None">>
      [] OTHER -> <<"?">>

RECURSIVE LStrip(_)
LStrip(s) == IF s # <<>> /\ Head(s) = " " THEN LStrip(Tail(s)) ELSE s

RECURSIVE RStrip(_)
RStrip(s) ==
    IF s # <<>> /\ s[Len(s)] = " " THEN RStrip(SubSeq(s, 1, Len(s) - 1)) ELSE s

\* str.strip()
Strip(s) == RStrip(LStrip(s))

\* isinstance(v, (int, float))
IsNumber(v) == v.t = "num"

(***************************************************************************)
(* get_states_and_cities, the part after the response has arrived.         *)
(***************************************************************************)
\* col = [row[c] if c < len(row) else None for row in values]   (c from 1)
Column(values, c) ==
    [r \in 1..Len(values) |-> IF c <= Len(values[r]) THEN values[r][c] ELSE PyNone]

\* v not in (None, "")
NotNoneOrEmpty(v) == ~(v = PyNone \/ v = PyStr(<<>>))

RECURSIVE StripAll(_)
StripAll(vs) ==
    IF vs = <<>> THEN <<>> ELSE <<Strip(StrOf(Head(vs)))>> \o StripAll(Tail(vs))

\* cities = [str(v).strip() for v in col[1:] if v not in (None, "")]
CitiesOf(col) == StripAll(SelectSeq(Tail(col), NotNoneOrEmpty))

\* dict[key] = value
DictPut(d, k, v) == [x \in DOMAIN d \cup {k} |-> IF x = k THEN v ELSE d[x]]

EmptyDict == [x \in {} |-> 0]

\* a loop in which the first of two columns with one header wins
RECURSIVE LookupLoopFirstWins(_, _, _, _)
LookupLoopFirstWins(values, c, num_cols, acc) ==
    IF c > num_cols THEN acc
    ELSE LET col == Column(values, c)
             state == Strip(StrOf(col[1]))
         IN  IF col = <<>> \/ ~Truthy(col[1]) \/ state = <<>>
             THEN LookupLoopFirstWins(values, c + 1, num_cols, acc)
             ELSE LookupLoopFirstWins(values, c + 1, num_cols,
                     [states |-> Append(acc.states, state),
                      state_to_cities |->
                          IF state \in DOMAIN acc.state_to_cities THEN acc.state_to_cities
                          ELSE DictPut(acc.state_to_cities, state, CitiesOf(col))])

RECURSIVE LookupLoop(_, _, _, _)
LookupLoop(values, c, num_cols, acc) ==
    IF c > num_cols THEN acc
    ELSE LET col == Column(values, c)
             state == Strip(StrOf(col[1]))
         IN  IF col = <<>> \/ ~Truthy(col[1]) THEN LookupLoop(values, c + 1, num_cols, acc)
             ELSE IF state = <<>> THEN LookupLoop(values, c + 1, num_cols, acc)
             ELSE LookupLoop(values, c + 1, num_cols,
                     [states |-> Append(acc.states, state),
                      state_to_cities |-> DictPut(acc.state_to_cities, state, CitiesOf(col))])

BuildOptions(values) ==
    LET num_cols == IF values # <<>> THEN Len(values[1]) ELSE 0
    IN  LookupLoop(values, 1, num_cols, [states |-> <<>>, state_to_cities |-> EmptyDict])

(***************************************************************************)
(* State.                                                                  *)
(***************************************************************************)
VARIABLES
    session_state,  \* st.session_state: a dict, key -> value
    tokenExpired,   \* the access token of the cached account has expired
    workbook,       \* the Graph side: lookup grid, cells, sessions
    run,            \* what the latest run of the script did
    scenario        \* what the user and the outside world may do (never changes)

vars == <<session_state, tokenExpired, workbook, run, scenario>>

\* st.session_state as a dict
Has(ss, k) == k \in DOMAIN ss
Get(ss, k, d) == IF k \in DOMAIN ss THEN ss[k] ELSE d
Del(ss, k) == [x \in DOMAIN ss \ {k} |-> ss[x]]

\* the keys Start Over keeps                                  (line 606)
keep == {"msal_cache_serialized", "drive_item"}

\* cells whose value is a formula of the workbook
FormulaCells == {"C23", "C24", "F28", "E14", "F31", "F33", "C35", "C36", "F36"}

\* the opaque value of a computed formula cell
Formula(addr) == PyStr(<<"=", addr>>)

(***************************************************************************)
(* A run threads a context through the calls of the script.  ctx.run.exit  *)
(* is "run" while the script is executing; an exception in flight          *)
(* ("crash"), st.stop() ("stop") and st.rerun() ("rerun") end it, and      *)
(* every later call is skipped.                                            *)
(***************************************************************************)
Running(ctx) == ctx.run.exit = "run"

\* the request about to be sent is the one that gets an error answer
Fails(ctx) == Len(ctx.run.log) + 1 = ctx.failAt

Logged(ctx, op, sid, addr, ok) ==
    [ctx EXCEPT !.run.log = Append(@, [op |-> op, sid |-> sid, addr |-> addr, ok |-> ok])]

\* r.raise_for_status() on an error answer: requests.HTTPError
RaiseHTTPError(ctx) == [ctx EXCEPT !.run.exit = "crash", !.run.error = "HTTPError"]

Assign(ctx, k, v) ==
    IF Running(ctx) THEN [ctx EXCEPT !.ss = DictPut(@, k, v)] ELSE ctx

Show(ctx, m) ==
    IF Running(ctx) THEN [ctx EXCEPT !.run.msgs = @ \cup {m}] ELSE ctx

\* st.stop()
Stop(ctx) == IF Running(ctx) THEN [ctx EXCEPT !.run.exit = "stop"] ELSE ctx

\* st.rerun()
Rerun(ctx) == IF Running(ctx) THEN [ctx EXCEPT !.run.exit = "rerun"] ELSE ctx

\* set_step(n)
set_step(ctx, n) == Assign(ctx, "step", n)

\* get_step()
get_step(ss) == Get(ss, "step", 1)

(***************************************************************************)
(* Config & sanity checks.  A secret is a text, character by character; a  *)
(* secret that is not set reads as the empty text.                         *)
(***************************************************************************)
HexOrHyphen ==
    {"0", "1", "2", "3", "4", "5", "6", "7", "8", "9", "a", "b", "c", "d", "e", "f",
     "A", "B", "C", "D", "E", "F", "-"}

\* guid.match(s) for guid = re.compile(r"^[0-9a-fA-F-]{36}$"): 36 characters of
\* the class, then the end of the text or a newline that ends the text
guid_match(s) ==
    /\ Len(s) = 36 \/ (Len(s) = 37 /\ s[37] = "\n")
    /\ \A i \in 1..36 : s[i] \in HexOrHyphen

\* s.startswith(p)
startswith(s, p) == Len(s) >= Len(p) /\ SubSeq(s, 1, Len(p)) = p

MeDriveRoot == <<"/", "m", "e", "/", "d", "r", "i", "v", "e", "/", "r", "o", "o", "t", ":">>
SitesRoot == <<"/", "s", "i", "t", "e", "s", "/">>

\* bad, as lines 18-23 build it
BadSecrets(secrets) ==
    (IF ~guid_match(secrets.TENANT_ID) THEN <<"TENANT_ID">> ELSE <<>>)
    \o (IF ~guid_match(secrets.CLIENT_ID) THEN <<"CLIENT_ID">> ELSE <<>>)
    \o (IF ~(startswith(secrets.WORKBOOK_PATH, MeDriveRoot)
             \/ startswith(secrets.WORKBOOK_PATH, SitesRoot))
        THEN <<"WORKBOOK_PATH">> ELSE <<>>)

\* if bad: st.error("Secrets not set correctly: " + ...); st.stop()
config_check(ctx, secrets) ==
    IF BadSecrets(secrets) # <<>>
    THEN Stop(Show([ctx EXCEPT !.run.bad = BadSecrets(secrets)], "error_secrets"))
    ELSE ctx

(***************************************************************************)
(* Token cache and acquire_token.  a is what the identity provider does in *)
(* this run: a.silent is the result of acquire_token_silent ("token",      *)
(* "none" for None, "error" for a dict without access_token), a.flow       *)
(* whether initiate_device_flow returns a user_code, a.device whether the  *)
(* device flow ends with an access_token.                                  *)
(***************************************************************************)
\* a _get_cache_obj that trusts whatever is stored
get_cache_obj_trusting(ss) ==
    IF Has(ss, "msal_cache_serialized") THEN "account" ELSE "empty"

\* _get_cache_obj(): what the cache it returns holds.  The stored text is
\* "account" (a cache serialized after a sign-in) or "corrupt" (a text that
\* deserialize rejects); without a text, or with a corrupt one, the cache is
\* empty.
get_cache_obj(ss) ==
    IF Get(ss, "msal_cache_serialized", "") = "account" THEN "account" ELSE "empty"

\* _save_cache_obj(cache); ok: cache.serialize() does not raise.  A failure
\* is swallowed.  run.saved: the function was called.
save_cache_obj(ctx, ok) ==
    IF ~Running(ctx) THEN ctx
    ELSE IF ok
    THEN [ctx EXCEPT !.ss = DictPut(@, "msal_cache_serialized", "account"),
                     !.run.saved = TRUE, !.run.serialized = TRUE]
    ELSE [ctx EXCEPT !.run.saved = TRUE]

DeviceFlow(ctx, a) ==
    LET c1 == [ctx EXCEPT !.run.device = TRUE]
    IN  IF ~a.flow THEN Stop(Show(c1, "error_device_start"))
        ELSE LET c2 == Show(c1, "info_device_code")
             IN  IF ~a.device THEN Stop(Show(c2, "error_auth"))
                 ELSE [save_cache_obj(c2, a.save) EXCEPT !.expired = FALSE]

\* an acquire_token that never tries the cache
acquire_token_no_silent(ctx, a) == DeviceFlow(ctx, [a EXCEPT !.flow = TRUE, !.device = TRUE])

acquire_token(ctx, a) ==
    IF ~Running(ctx) THEN ctx
    ELSE IF get_cache_obj(ctx.ss) = "account"
    THEN LET c1 == [ctx EXCEPT !.run.silent = TRUE, !.run.res = a.silent]
         IN  CASE a.silent = "token" -> [save_cache_obj(c1, a.save) EXCEPT !.expired = FALSE]
               \* "access_token" in None raises TypeError
               [] a.silent = "none" -> [c1 EXCEPT !.run.exit = "crash", !.run.error = "TypeError"]
               [] OTHER -> DeviceFlow(c1, a)
    ELSE DeviceFlow(ctx, a)

\* what the identity provider can answer in a run
AuthChoices(ss, expired) ==
    LET silents == IF get_cache_obj(ss) # "account" THEN {"error"}
                   ELSE IF expired THEN {"token", "none", "error"} ELSE {"token"}
        saves == IF scenario.corrupt THEN BOOLEAN ELSE {TRUE}
    IN  {a \in [silent : silents, flow : BOOLEAN, device : BOOLEAN, save : saves] :
            /\ a.silent # "error" => (a.flow /\ a.device)
            /\ ~a.flow => ~a.device
            /\ ~a.device => a.save}

(***************************************************************************)
(* Graph helpers.                                                          *)
(***************************************************************************)
\* an _item_base that resolves the path on every call
item_base_always(ctx) ==
    IF ~Running(ctx) THEN ctx
    ELSE IF Fails(ctx) THEN RaiseHTTPError(Logged(ctx, "resolve", 0, "", FALSE))
    ELSE Assign(Logged(ctx, "resolve", 0, "", TRUE), "drive_item", "item")

\* _item_base(token): resolves the workbook path once
item_base(ctx) ==
    IF ~Running(ctx) \/ Has(ctx.ss, "drive_item") THEN ctx
    ELSE IF Fails(ctx) THEN RaiseHTTPError(Logged(ctx, "resolve", 0, "", FALSE))
    ELSE Assign(Logged(ctx, "resolve", 0, "", TRUE), "drive_item", "item")

\* POST .../workbook/createSession; the server hands out the id wb.nextSid
post_createSession(ctx) ==
    IF ~Running(ctx) THEN ctx
    ELSE IF Fails(ctx) THEN RaiseHTTPError(Logged(ctx, "createSession", 0, "", FALSE))
    ELSE [Logged(ctx, "createSession", 0, "", TRUE) EXCEPT
             !.wb.nextSid = @ + 1,
             !.wb.open = @ \cup {ctx.wb.nextSid},
             !.wb.written = EmptyDict,
             !.ss = DictPut(@, "excel_session_id", ctx.wb.nextSid),
             !.run.sid = ctx.wb.nextSid]

\* a create_session that opens a session in every run
create_session_always(ctx) ==
    IF ~Running(ctx) THEN ctx
    ELSE LET c1 == item_base(ctx)
             sid == IF c1.wb.nextSid <= MaxSid THEN c1.wb.nextSid ELSE MaxSid
         IN  IF ~Running(c1) THEN c1
             ELSE IF Fails(c1) THEN RaiseHTTPError(Logged(c1, "createSession", 0, "", FALSE))
             ELSE [Logged(c1, "createSession", 0, "", TRUE) EXCEPT
                      !.wb.nextSid = sid + 1,
                      !.wb.open = @ \cup {sid},
                      !.wb.written = EmptyDict,
                      !.ss = DictPut(@, "excel_session_id", sid),
                      !.run.sid = sid]

\* create_session(token); the id it returns is ctx.run.sid
create_session(ctx) ==
    IF ~Running(ctx) THEN ctx
    ELSE IF Get(ctx.ss, "excel_session_id", 0) # 0
    THEN [ctx EXCEPT !.run.sid = ctx.ss["excel_session_id"]]
    ELSE post_createSession(item_base(ctx))

\* a close request whose failure is raised to the caller
post_closeSession_raises(ctx, sid) ==
    IF ~Running(ctx) THEN ctx
    ELSE IF Fails(ctx) \/ sid \notin ctx.wb.open
    THEN RaiseHTTPError([Logged(ctx, "closeSession", sid, "", FALSE) EXCEPT
                            !.wb.closeCnt[sid] = @ + 1])
    ELSE [Logged(ctx, "closeSession", sid, "", TRUE) EXCEPT
             !.wb.closeCnt[sid] = @ + 1,
             !.wb.open = @ \ {sid}]

\* POST .../workbook/closeSession inside try / except Exception: pass
post_closeSession(ctx, sid) ==
    IF ~Running(ctx) THEN [ctx EXCEPT !.run.exit = "run", !.run.error = ""]
    ELSE IF Fails(ctx) \/ sid \notin ctx.wb.open
    THEN [Logged(ctx, "closeSession", sid, "", FALSE) EXCEPT !.wb.closeCnt[sid] = @ + 1]
    ELSE [Logged(ctx, "closeSession", sid, "", TRUE) EXCEPT
             !.wb.closeCnt[sid] = @ + 1,
             !.wb.open = @ \ {sid}]

\* close_session(token): the request's failure is swallowed
close_session(ctx) ==
    IF ~Running(ctx) THEN ctx
    ELSE IF Get(ctx.ss, "excel_session_id", 0) = 0
    THEN [ctx EXCEPT !.ss = Del(@, "excel_session_id")]
    ELSE post_closeSession(item_base([ctx EXCEPT !.ss = Del(@, "excel_session_id")]),
                           ctx.ss["excel_session_id"])

\* the server accepts a request of a session only while the session is open
Served(ctx, sid) == ~Fails(ctx) /\ sid \in ctx.wb.open

\* PATCH .../range(address=addr) under the session, then raise_for_status
patch_range(ctx, sid, addr, value) ==
    IF ~Running(ctx) THEN ctx
    ELSE IF ~Served(ctx, sid) THEN RaiseHTTPError(Logged(ctx, "set_cell", sid, addr, FALSE))
    ELSE [Logged(ctx, "set_cell", sid, addr, TRUE) EXCEPT
             !.wb.cells = DictPut(@, addr, value),
             !.wb.written = DictPut(@, addr, value),
             !.wb.dirty = TRUE]

\* a set_cell that sends no workbook-session-id header
set_cell_no_header(ctx, sid, addr, value) ==
    LET c1 == item_base(ctx)
    IN  IF ~Running(c1) THEN c1
        ELSE IF Fails(c1) THEN RaiseHTTPError(Logged(c1, "set_cell", 0, addr, FALSE))
        ELSE [Logged(c1, "set_cell", 0, addr, TRUE) EXCEPT
                 !.wb.cells = DictPut(@, addr, value),
                 !.wb.dirty = TRUE]

\* set_cell(token, sid, addr, value)
set_cell(ctx, sid, addr, value) == patch_range(item_base(ctx), sid, addr, value)

\* what the range holds for a reader of session sid
CellValue(wb, addr) ==
    IF wb.dirty THEN Unspecified
    ELSE IF addr \in FormulaCells THEN Formula(addr)
    ELSE Get(wb.cells, addr, PyStr(<<>>))

\* GET .../range(address=addr) under the session, then raise_for_status
get_range(ctx, sid, addr) ==
    IF ~Running(ctx) THEN ctx
    ELSE IF ~Served(ctx, sid) THEN RaiseHTTPError(Logged(ctx, "get_cell", sid, addr, FALSE))
    ELSE [Logged(ctx, "get_cell", sid, addr, TRUE) EXCEPT !.ret = CellValue(ctx.wb, addr)]

\* get_cell(token, sid, addr); the value it returns is ctx.ret
get_cell(ctx, sid, addr) == get_range(item_base(ctx), sid, addr)

\* POST .../workbook/application/calculate, then raise_for_status
post_calculate(ctx, sid) ==
    IF ~Running(ctx) THEN ctx
    ELSE IF ~Served(ctx, sid) THEN RaiseHTTPError(Logged(ctx, "calculate", sid, "", FALSE))
    ELSE [Logged(ctx, "calculate", sid, "", TRUE) EXCEPT !.wb.dirty = FALSE]

\* calculate(token, sid)
calculate(ctx, sid) == post_calculate(item_base(ctx), sid)

\* GET the lookup range, raise_for_status, build and cache the two collections
get_lookup(ctx, sid) ==
    IF ~Running(ctx) THEN ctx
    ELSE IF ~Served(ctx, sid)
    THEN RaiseHTTPError(Logged(ctx, "lookup", sid, "Lists!C1:BA100", FALSE))
    ELSE [Logged(ctx, "lookup", sid, "Lists!C1:BA100", TRUE) EXCEPT
             !.ss = DictPut(DictPut(@, "states_list", BuildOptions(ctx.wb.grid).states),
                            "state_to_cities", BuildOptions(ctx.wb.grid).state_to_cities)]

\* get_states_and_cities(token, sid)
get_states_and_cities(ctx, sid) ==
    IF ~Running(ctx) THEN ctx
    ELSE IF Has(ctx.ss, "states_list") /\ Has(ctx.ss, "state_to_cities") THEN ctx
    ELSE get_lookup(item_base(ctx), sid)

(***************************************************************************)
(* Wizard helpers.  A helper's return value is ctx.ret.                    *)
(***************************************************************************)
Return(ctx, v) == IF Running(ctx) THEN [ctx EXCEPT !.ret = v] ELSE ctx

\* an apply_state that records the state before it writes the cell
apply_state_eager(ctx, sid, state) ==
    IF Truthy(state)
    THEN Return(set_cell(Assign(ctx, "selected_state", state), sid, "C18", state), TRUE)
    ELSE Return(ctx, FALSE)

\* apply_state(token, sid, state)
apply_state(ctx, sid, state) ==
    IF Truthy(state)
    THEN Return(Assign(set_cell(ctx, sid, "C18", state), "selected_state", state), TRUE)
    ELSE Return(ctx, FALSE)

\* write_city_to_workbook(token, sid, city)
write_city_to_workbook(ctx, sid, city) == set_cell(ctx, sid, "C19", city)

\* a climate check that reads without recalculating
check_climate_no_calculate(ctx, sid, city) ==
    LET c1 == write_city_to_workbook(ctx, sid, city)
        c3 == get_cell(c1, sid, "C23")
    IN  get_cell(c3, sid, "C24")

\* check_climate(token, sid, city)
check_climate(ctx, sid, city) ==
    get_cell(get_cell(calculate(write_city_to_workbook(ctx, sid, city), sid), sid, "C23"),
             sid, "C24")

\* the cells save_building_inputs writes, in the order it writes them
BuildingCells ==
    << <<"F18", "bldg_area">>, <<"F19", "floors">>, <<"F20", "hvac">>, <<"F24", "existw">>,
       <<"F21", "fuel">>, <<"F22", "cool">>, <<"F23", "hours">>, <<"F27", "csw_sf">> >>

RECURSIVE WriteFields(_, _, _)
WriteFields(ctx, sid, pairs) ==
    IF pairs = <<>> \/ ~Running(ctx) THEN ctx
    ELSE WriteFields(set_cell(ctx, sid, Head(pairs)[1], Get(ctx.ss, Head(pairs)[2], PyNone)),
                     sid, Tail(pairs))

\* a ready test that forgets the operating hours
BuildingReadyNoHours(ss) ==
    LET f(k) == Get(ss, k, PyNone)
    IN  /\ IsNumber(f("bldg_area")) /\ f("bldg_area").n > 0
        /\ IsNumber(f("floors")) /\ f("floors").n >= 0
        /\ Truthy(f("hvac")) /\ Truthy(f("existw")) /\ Truthy(f("fuel")) /\ Truthy(f("cool"))
        /\ IsNumber(f("csw_sf")) /\ f("csw_sf").n > 0

\* the ready test of save_building_inputs
BuildingReady(ss) ==
    LET f(k) == Get(ss, k, PyNone)
    IN  /\ IsNumber(f("bldg_area")) /\ f("bldg_area").n > 0
        /\ IsNumber(f("floors")) /\ f("floors").n >= 0
        /\ Truthy(f("hvac")) /\ Truthy(f("existw")) /\ Truthy(f("fuel")) /\ Truthy(f("cool"))
        /\ IsNumber(f("hours")) /\ f("hours").n > 0
        /\ IsNumber(f("csw_sf")) /\ f("csw_sf").n > 0

\* st.session_state[k] = the value the last call returned
AssignRet(ctx, k) == Assign(ctx, k, ctx.ret)

\* save_building_inputs(token, sid, calc_for_wwr)
save_building_inputs(ctx, sid, calc_for_wwr) ==
    IF ~BuildingReady(ctx.ss) THEN Return(ctx, FALSE)
    ELSE IF calc_for_wwr
    THEN Return(Assign(AssignRet(
                    get_cell(calculate(WriteFields(ctx, sid, BuildingCells), sid), sid, "F28"),
                    "wwr_latest"), "wwr_checked", TRUE), TRUE)
    ELSE Return(Assign(WriteFields(ctx, sid, BuildingCells), "wwr_checked", FALSE), TRUE)

\* del st.session_state[k]
Delete(ctx, k) == IF Running(ctx) THEN [ctx EXCEPT !.ss = Del(@, k)] ELSE ctx

\* an ensure_city_committed that drops the pending city without writing it
ensure_city_committed_forgets(ctx, sid) ==
    IF Truthy(Get(ctx.ss, "pending_city", PyNone))
    THEN Delete(ctx, "pending_city")
    ELSE ctx

\* ensure_city_committed(token, sid)
ensure_city_committed(ctx, sid) ==
    IF Truthy(Get(ctx.ss, "pending_city", PyNone))
    THEN Delete(write_city_to_workbook(ctx, sid, ctx.ss["pending_city"]), "pending_city")
    ELSE ctx

\* the ready test of save_rates
RatesReady(ss) ==
    LET f(k) == Get(ss, k, PyNone)
    IN  /\ Truthy(f("cswtyp"))
        /\ f("elec_rate") # PyNone /\ f("elec_rate").n >= 0
        /\ f("gas_rate") # PyNone /\ f("gas_rate").n >= 0

\* the cells save_rates writes after the city
RateCells == << <<"F26", "cswtyp">>, <<"C27", "elec_rate">>, <<"C28", "gas_rate">> >>

\* save_rates(token, sid)
save_rates(ctx, sid) ==
    IF ~RatesReady(ctx.ss) THEN Return(ctx, FALSE)
    ELSE Return(Assign(WriteFields(ensure_city_committed(ctx, sid), sid, RateCells),
                       "step4_applied", TRUE), TRUE)

RECURSIVE ReadCells(_, _, _)
ReadCells(ctx, sid, addrs) ==
    IF addrs = <<>> \/ ~Running(ctx) THEN ctx
    ELSE ReadCells(get_cell(ctx, sid, Head(addrs)), sid, Tail(addrs))

\* read_results(token, sid)
ResultCells == <<"E14", "F31", "F33", "C35", "C36", "F36", "F28">>
read_results(ctx, sid) == ReadCells(ctx, sid, ResultCells)

\* the cells of the input summary, in the order they are read
SummaryCells ==
    <<"C18", "C19", "F18", "F19", "F20", "F24", "F21", "F22", "F23", "F28", "F27", "F26",
      "C27", "C28">>

\* the row of the summary that shows the cell just read
SummaryRow(ctx, addr) ==
    IF Running(ctx) THEN [ctx EXCEPT !.run.summary = DictPut(@, addr, ctx.ret)] ELSE ctx

RECURSIVE ReadSummary(_, _, _)
ReadSummary(ctx, sid, addrs) ==
    IF addrs = <<>> \/ ~Running(ctx) THEN ctx
    ELSE ReadSummary(SummaryRow(get_cell(ctx, sid, Head(addrs)), Head(addrs)),
                     sid, Tail(addrs))

\* read_input_summary_from_workbook(token, sid): the value read for each row
read_input_summary_from_workbook(ctx, sid) == ReadSummary(ctx, sid, SummaryCells)

(***************************************************************************)
(* The steps of the wizard.  btn is the button pressed in this run         *)
(* ("load" when none was).                                                 *)
(***************************************************************************)
\* a widget with a key that session_state does not hold yet takes its default
Default(ctx, k, v) == IF Running(ctx) /\ ~Has(ctx.ss, k) THEN Assign(ctx, k, v) ELSE ctx

\* the widgets of step n are on the page
Page(ctx, n) == IF Running(ctx) THEN [ctx EXCEPT !.run.page = n] ELSE ctx

Warn(ctx, m) == Show(ctx, m)

Contains(seq, x) == \E i \in 1..Len(seq) : seq[i] = x

HvacOptions ==
    << <<"Packaged VAV with electric reheat">>, <<"Packaged VAV with hydronic reheat">>,
       <<"Built-up VAV with hydronic reheat">>, <<"Other">> >>
ExistwOptions == << <<"Single pane">>, <<"Double pane">> >>
FuelOptions == << <<"Electric">>, <<"Natural Gas">>, <<"None">> >>
CoolOptions == << <<"Yes">>, <<"No">> >>
CswOptions == << <<"Single">>, <<"Double">> >>

\* a handler that returned True moves to step n, one that returned False warns
Advance(ctx, n, m) ==
    IF ~Running(ctx) THEN ctx
    ELSE IF ctx.ret THEN Rerun(set_step(ctx, n))
    ELSE Warn(ctx, m)

\* a handler that returned False warns
WarnUnless(ctx, m) ==
    IF ~Running(ctx) THEN ctx
    ELSE IF ~ctx.ret THEN Warn(ctx, m)
    ELSE ctx

\* the State selectbox: the state chosen before if the list has it, else the first
StateSelect(ctx) ==
    LET states_list == ctx.ss["states_list"]
        default_state == Get(ctx.ss, "selected_state", PyNone)
    IN  Default(ctx, "state_sel",
                IF states_list = <<>> THEN PyNone
                ELSE IF default_state.t = "str" /\ Contains(states_list, default_state.s)
                THEN default_state
                ELSE PyStr(states_list[1]))

\* apply_state returned True: the city confirmed earlier is out of date
Applied(ctx) == IF Running(ctx) /\ ctx.ret THEN [ctx EXCEPT !.run.stale = TRUE] ELSE ctx

\* the Next button of step 1
Step1Buttons(ctx, sid, btn) ==
    IF btn = "next1"
    THEN Advance(Applied(apply_state(ctx, sid, Get(ctx.ss, "state_sel", PyNone))), 2,
                 "warn_state")
    ELSE ctx

\* STEP 1                                                  (lines 422-432)
Step1(ctx, sid, btn) == Step1Buttons(Page(StateSelect(ctx), 1), sid, btn)

\* a step 2 that keeps the city choice when the state has changed
ResetCity_keeps(ctx) ==
    IF Get(ctx.ss, "last_state_for_city", PyNone) # ctx.ss["selected_state"]
    THEN Assign(ctx, "last_state_for_city", ctx.ss["selected_state"])
    ELSE ctx

\* the city choice is dropped when the state has changed
ResetCity(ctx) ==
    IF Get(ctx.ss, "last_state_for_city", PyNone) # ctx.ss["selected_state"]
    THEN Assign([ctx EXCEPT !.ss = Del(@, "city_sel")],
                "last_state_for_city", ctx.ss["selected_state"])
    ELSE ctx

\* the City selectbox over the cities of the selected state
CitySelect(ctx) ==
    LET city_options == Get(ctx.ss["state_to_cities"], ctx.ss["selected_state"].s, <<>>)
    IN  Default(ctx, "city_sel",
                IF city_options = <<>> THEN PyNone ELSE PyStr(city_options[1]))

\* run.confirmed: the city most recently chosen with Next on step 2;
\* run.stale: a state has been applied and no city chosen with Next since
Confirmed(ctx, city) == [ctx EXCEPT !.run.confirmed = city, !.run.stale = FALSE]

\* the Check Climate and Next buttons of step 2
Step2Buttons(ctx, sid, btn) ==
    LET city == Get(ctx.ss, "city_sel", PyNone)
    IN  CASE btn = "check2" ->
               IF ~Truthy(city) THEN Warn(ctx, "warn_city")
               ELSE check_climate(ctx, sid, city)
          [] btn = "next2" ->
               IF ~Truthy(city) THEN Warn(ctx, "warn_city")
               ELSE Rerun(set_step(Assign(Confirmed(ctx, city), "pending_city", city), 3))
          [] OTHER -> ctx

\* STEP 2                                                  (lines 437-485)
Step2(ctx, sid, btn) ==
    IF btn = "back2" THEN Rerun(set_step(ctx, 1))
    ELSE IF ~Truthy(Get(ctx.ss, "selected_state", PyNone))
    \* check2 and next2 are never bound: NameError at line 467
    THEN [Show(ctx, "info_state") EXCEPT !.run.exit = "crash", !.run.error = "NameError"]
    ELSE Step2Buttons(Page(CitySelect(ResetCity(ctx)), 2), sid, btn)

\* the widgets of the building form
Form3Widgets(ctx) ==
    Default(Default(Default(Default(Default(Default(Default(Default(ctx,
        "bldg_area", PyNum(0)), "floors", PyNum(0)),
        "hvac", PyStr(HvacOptions[1])), "existw", PyStr(ExistwOptions[1])),
        "fuel", PyStr(FuelOptions[1])), "cool", PyStr(CoolOptions[1])),
        "hours", PyNum(0)), "csw_sf", PyNum(0))

\* the Check WWR and Next buttons of step 3
Step3Buttons(ctx, sid, btn) ==
    CASE btn = "check3" -> WarnUnless(save_building_inputs(ctx, sid, TRUE), "warn_building")
      [] btn = "next3" -> Advance(save_building_inputs(ctx, sid, FALSE), 4, "warn_building")
      [] OTHER -> ctx

\* a step 3 whose Back saves the building form first
Step3BackValidates(ctx, sid, btn) ==
    IF btn = "back3"
    THEN Advance(save_building_inputs(Page(Form3Widgets(ctx), 3), sid, FALSE), 2,
                 "warn_building")
    ELSE Step3Buttons(Page(Form3Widgets(ctx), 3), sid, btn)

\* STEP 3                                                  (lines 490-535)
Step3(ctx, sid, btn) ==
    IF btn = "back3" THEN Rerun(set_step(ctx, 2))
    ELSE Step3Buttons(Page(Form3Widgets(ctx), 3), sid, btn)

\* the widgets of the rates form
Form4Widgets(ctx) ==
    Default(Default(Default(ctx,
        "cswtyp", PyStr(CswOptions[1])), "elec_rate", PyNum(0)), "gas_rate", PyNum(0))

\* the See Results button of step 4
Step4Buttons(ctx, sid, btn) ==
    IF btn = "next4" THEN Advance(save_rates(ctx, sid), 5, "warn_rates") ELSE ctx

\* STEP 4                                                  (lines 540-561)
Step4(ctx, sid, btn) ==
    IF btn = "back4" THEN Rerun(set_step(ctx, 3))
    ELSE Step4Buttons(Page(Form4Widgets(ctx), 4), sid, btn)

\* for k in list(st.session_state.keys()): if k not in keep: del ...
KeepOnly(ctx) == [ctx EXCEPT !.ss = [k \in DOMAIN ctx.ss \cap keep |-> ctx.ss[k]]]

\* a Start Over that forgets to close the session
StartOverNoClose(ctx) ==
    LET c1 == [ctx EXCEPT !.ss = Del(@, "excel_session_id")]
        c2 == [c1 EXCEPT !.ss = [k \in DOMAIN c1.ss \cap keep |-> c1.ss[k]]]
    IN  Rerun(set_step(c2, 1))

\* a Start Over that clears every key
StartOverClearsAll(ctx) ==
    LET c1 == close_session(ctx)
        c2 == [c1 EXCEPT !.ss = EmptyDict]
    IN  Rerun(set_step(c2, 1))

\* the Start Over handler                                  (lines 604-610)
StartOver(ctx) == Rerun(set_step(KeepOnly(close_session(ctx)), 1))

\* except requests.HTTPError as e: st.error(...)           (lines 596-597)
ExceptHTTPError(ctx) ==
    IF ctx.run.exit = "crash" /\ ctx.run.error = "HTTPError"
    THEN [ctx EXCEPT !.run.exit = "run", !.run.error = "", !.run.msgs = @ \cup {"error_http"}]
    ELSE ctx

\* results read without the recalculation
ResultsNoCalculate(ctx, sid) ==
    read_input_summary_from_workbook(read_results(ctx, sid), sid)

\* the results of step 5                                   (lines 569-594)
Results(ctx, sid) ==
    read_input_summary_from_workbook(read_results(calculate(ctx, sid), sid), sid)

\* a step 5 whose Back jumps to step 3
Step5BackSkips(ctx, btn) ==
    CASE btn = "back5" -> Rerun(set_step(ctx, 3))
      [] btn = "startover" -> StartOver(ctx)
      [] OTHER -> ctx

\* the Back and Start Over buttons of step 5
Step5Buttons(ctx, btn) ==
    CASE btn = "back5" -> Rerun(set_step(ctx, 4))
      [] btn = "startover" -> StartOver(ctx)
      [] OTHER -> ctx

\* STEP 5                                                  (lines 566-610)
Step5(ctx, sid, btn) == Step5Buttons(Page(ExceptHTTPError(Results(ctx, sid)), 5), btn)

(***************************************************************************)
(* One run of the script.  ev is the user event and what the outside       *)
(* world does during the run: ev.btn the button, ev.w the values of the    *)
(* widgets the user has set, ev.auth the identity provider's answers,      *)
(* ev.failAt the request answered with an error (0: none).                 *)
(***************************************************************************)
Widgets(ss, w) == [k \in DOMAIN ss \cup DOMAIN w |-> IF k \in DOMAIN w THEN w[k] ELSE ss[k]]

\* the cached credential a run starts with
TokenAtStart(ss, expired) ==
    IF ~Has(ss, "msal_cache_serialized") THEN "none"
    ELSE IF ss["msal_cache_serialized"] = "corrupt" THEN "corrupt"
    ELSE IF expired THEN "expired" ELSE "valid"

NewRun(ss, expired, btn) ==
    [act |-> btn, exit |-> "run", error |-> "", log |-> <<>>, msgs |-> {},
     token0 |-> TokenAtStart(ss, expired), silent |-> FALSE, device |-> FALSE,
     saved |-> FALSE, sid |-> 0, page |-> 0, step0 |-> get_step(ss),
     summary |-> EmptyDict, bad |-> <<>>, res |-> "", serialized |-> FALSE,
     confirmed |-> PyNone, stale |-> FALSE]

\* step = get_step(); if step == 1: ... elif step == 5: ...
Steps(ctx) ==
    IF ~Running(ctx) THEN ctx
    ELSE CASE get_step(ctx.ss) = 1 -> Step1(ctx, ctx.run.sid, ctx.run.act)
           [] get_step(ctx.ss) = 2 -> Step2(ctx, ctx.run.sid, ctx.run.act)
           [] get_step(ctx.ss) = 3 -> Step3(ctx, ctx.run.sid, ctx.run.act)
           [] get_step(ctx.ss) = 4 -> Step4(ctx, ctx.run.sid, ctx.run.act)
           [] get_step(ctx.ss) = 5 -> Step5(ctx, ctx.run.sid, ctx.run.act)
           [] OTHER -> ctx

\* try: ... finally: pass                                  (lines 415-613)
Body(ctx) == Steps(get_states_and_cities(ctx, ctx.run.sid))

\* the context a run starts in
NewContext(ss, wb, expired, ev) ==
    [ss |-> Widgets(ss, ev.w), wb |-> wb, expired |-> expired,
     failAt |-> ev.failAt, ret |-> FALSE,
     run |-> [NewRun(ss, expired, ev.btn) EXCEPT
                 !.confirmed = ev.confirmed, !.stale = ev.stale]]

\* the script ran to its last line
Finish(ctx) == IF Running(ctx) THEN [ctx EXCEPT !.run.exit = "done"] ELSE ctx

Script(ss, wb, expired, ev) ==
    Finish(Body(create_session(acquire_token(
        config_check(NewContext(ss, wb, expired, ev), ev.secrets), ev.auth))))

(***************************************************************************)
(* The user's choices.                                                     *)
(***************************************************************************)
Nums == {PyNum(n) : n \in 0..MaxNum}
Positive == {PyNum(n) : n \in 1..MaxNum}

\* what the State selectbox offers
StateChoices(ss) ==
    LET l == Get(ss, "states_list", <<>>)
    IN  IF l = <<>> THEN {PyNone} ELSE {PyStr(l[i]) : i \in 1..Len(l)}

\* what the City selectbox offers
CityChoices(ss) ==
    LET state == Get(ss, "selected_state", PyNone)
        l == Get(Get(ss, "state_to_cities", EmptyDict), state.s, <<>>)
    IN  IF l = <<>> THEN {PyNone} ELSE {PyStr(l[i]) : i \in 1..Len(l)}

\* a complete step-3 form, the selectboxes at their first option
BaseForm3 ==
    [bldg_area |-> PyNum(1), floors |-> PyNum(0), hvac |-> PyStr(HvacOptions[1]),
     existw |-> PyStr(ExistwOptions[1]), fuel |-> PyStr(FuelOptions[1]),
     cool |-> PyStr(CoolOptions[1]), hours |-> PyNum(1), csw_sf |-> PyNum(1)]

\* complete forms that differ in their numbers
Form3Valid == {[BaseForm3 EXCEPT !.bldg_area = a, !.floors = f] : a \in Positive, f \in Nums}

\* forms with one required number left at 0
Form3Invalid ==
    {[BaseForm3 EXCEPT !.bldg_area = PyNum(0)], [BaseForm3 EXCEPT !.hours = PyNum(0)],
     [BaseForm3 EXCEPT !.csw_sf = PyNum(0)]}

\* a step-4 form
BaseForm4 == [cswtyp |-> PyStr(CswOptions[1]), elec_rate |-> PyNum(0), gas_rate |-> PyNum(0)]

Form4Valid == {[BaseForm4 EXCEPT !.elec_rate = e] : e \in Nums}

\* lookup ranges
Cell(x) == PyStr(<<x>>)
Blank == PyStr(<<>>)
SmallGrid == << <<Cell("TX")>>, <<Cell("Austin")>> >>
NoCityGrid == << <<Cell("AK")>>, <<Blank>> >>
MainGrid ==
    << <<Cell("TX"), PyStr(<<" ", "NY", " ">>)>>,
       <<Cell("Austin"), Cell("Albany")>>,
       <<Cell("Dallas"), Blank>> >>

(***************************************************************************)
(* Scenarios: the lookup range of the workbook, whether requests can be    *)
(* answered with an error, whether the token can expire, and the forms the *)
(* user submits.                                                           *)
(***************************************************************************)
\* n times the character ch
Rep(ch, n) == [i \in 1..n |-> ch]

\* an identifier of the usual shape, 8-4-4-4-12
Guid ==
    Rep("0", 8) \o <<"-">> \o Rep("a", 4) \o <<"-">> \o Rep("4", 4) \o <<"-">> \o Rep("B", 4)
    \o <<"-">> \o Rep("f", 12)

\* secrets that pass the sanity checks
GoodSecrets ==
    [TENANT_ID |-> Guid, CLIENT_ID |-> Guid,
     WORKBOOK_PATH |-> MeDriveRoot \o <<"/", "b", ".", "x", "l", "s", "x">>]

Scenario(grid, faults, expiry, form3, form4) ==
    [grid |-> grid, faults |-> faults, expiry |-> expiry, form3 |-> form3, form4 |-> form4,
     secrets |-> GoodSecrets, corrupt |-> FALSE]

\* requests fail; one state, one city
Faulty ==
    Scenario(SmallGrid, TRUE, FALSE, {BaseForm3, [BaseForm3 EXCEPT !.bldg_area = PyNum(0)]},
             {BaseForm4})
\* incomplete forms
Gating == Scenario(SmallGrid, FALSE, FALSE, {BaseForm3} \cup Form3Invalid, {BaseForm4})
\* several states and cities, several values
Rich == Scenario(MainGrid, FALSE, FALSE, Form3Valid, Form4Valid)
\* the token expires and the identity provider fails
Expiring == Scenario(SmallGrid, FALSE, TRUE, {BaseForm3}, {BaseForm4})
\* workbooks whose lookup range is empty, or has a state without cities
Empty == Scenario(<<>>, TRUE, FALSE, {BaseForm3}, {BaseForm4})
NoCity == Scenario(NoCityGrid, TRUE, FALSE, {BaseForm3}, {BaseForm4})
\* the stored credential cache gets corrupted and serializing it fails
Corrupted == [Scenario(SmallGrid, FALSE, FALSE, {BaseForm3}, {BaseForm4}) EXCEPT !.corrupt = TRUE]

Scenarios == {Faulty, Gating, Rich, Expiring, Empty, NoCity, Corrupted}

(***************************************************************************)
(* Actions: one per user event.                                            *)
(***************************************************************************)
Event(btn, w, a, f) ==
    [btn |-> btn, w |-> w, auth |-> a, failAt |-> f, secrets |-> scenario.secrets,
     confirmed |-> run.confirmed, stale |-> run.stale]

\* every request of the run is a place where an error answer can arrive
FailPoints(btn, w, a) ==
    IF scenario.faults /\ workbook.faults < MaxFaults
    THEN 0..Len(Script(session_state, workbook, tokenExpired, Event(btn, w, a, 0)).run.log)
    ELSE {0}

RunScript(btn, w) ==
    /\ Get(session_state, "excel_session_id", 0) # 0 \/ workbook.nextSid <= MaxSid
    /\ \E a \in AuthChoices(session_state, tokenExpired) :
         \E f \in FailPoints(btn, w, a) :
            \E c \in {Script(session_state, workbook, tokenExpired, Event(btn, w, a, f))} :
                /\ session_state' = c.ss
                /\ workbook' = [c.wb EXCEPT !.faults = IF f > 0 THEN @ + 1 ELSE @]
                /\ tokenExpired' = c.expired
                /\ run' = c.run
    /\ UNCHANGED scenario

\* the buttons of step n are on the page and the script is not being rerun
CanPress(n) == run.page = n /\ run.exit \in {"done", "crash"}

\* a run without a button: first load, refresh, or the rerun st.rerun() asks for
Load == RunScript("load", EmptyDict)

Step1Next ==
    /\ CanPress(1)
    /\ \E sel \in StateChoices(session_state) : RunScript("next1", [state_sel |-> sel])

Step2Back == CanPress(2) /\ RunScript("back2", EmptyDict)

\* the City selectbox as the user leaves it: untouched, or set to an option
CityEvents(ss) == {EmptyDict} \cup {[city_sel |-> city] : city \in CityChoices(ss)}

Step2Check == CanPress(2) /\ \E w \in CityEvents(session_state) : RunScript("check2", w)

Step2Next == CanPress(2) /\ \E w \in CityEvents(session_state) : RunScript("next2", w)

\* Back is a submit button of the form: it submits the fields as they are
Step3Back == CanPress(3) /\ \E form \in scenario.form3 : RunScript("back3", form)

Step3Check == CanPress(3) /\ \E form \in scenario.form3 : RunScript("check3", form)

Step3Next == CanPress(3) /\ \E form \in scenario.form3 : RunScript("next3", form)

Step4Back == CanPress(4) /\ \E form \in scenario.form4 : RunScript("back4", form)

Step4Next == CanPress(4) /\ \E form \in scenario.form4 : RunScript("next4", form)

Step5Back == CanPress(5) /\ RunScript("back5", EmptyDict)

Step5StartOver == CanPress(5) /\ RunScript("startover", EmptyDict)

\* time passes: the cached access token expires
Expire ==
    /\ scenario.expiry
    /\ Has(session_state, "msal_cache_serialized")
    /\ ~tokenExpired
    /\ tokenExpired' = TRUE
    /\ UNCHANGED <<session_state, workbook, run, scenario>>

\* the stored credential cache becomes a text that deserialize rejects
Corrupt ==
    /\ scenario.corrupt
    /\ Get(session_state, "msal_cache_serialized", "") = "account"
    /\ session_state' = [session_state EXCEPT !["msal_cache_serialized"] = "corrupt"]
    /\ UNCHANGED <<tokenExpired, workbook, run, scenario>>

InitWorkbook(grid) ==
    [grid |-> grid, cells |-> EmptyDict, written |-> EmptyDict, dirty |-> FALSE,
     open |-> {}, closeCnt |-> [s \in 1..MaxSid |-> 0], nextSid |-> 1, faults |-> 0]

InitRun == [NewRun(EmptyDict, FALSE, "init") EXCEPT !.exit = "done"]

InitFor(scenarios) ==
    /\ scenario \in scenarios
    /\ session_state = EmptyDict
    /\ tokenExpired = FALSE
    /\ workbook = InitWorkbook(scenario.grid)
    /\ run = InitRun

Init == InitFor(Scenarios)

Next ==
    \/ Load
    \/ Step1Next
    \/ Step2Back
    \/ Step2Check
    \/ Step2Next
    \/ Step3Back
    \/ Step3Check
    \/ Step3Next
    \/ Step4Back
    \/ Step4Next
    \/ Step5Back
    \/ Step5StartOver
    \/ Expire
    \/ Corrupt

Spec == Init /\ [][Next]_vars

(***************************************************************************)
(* SpecLookup: the first run of the script against every small lookup      *)
(* range, which applies get_states_and_cities to it.                       *)
(***************************************************************************)
\* what a cell of the range can hold: empty, whitespace, texts, the number 0
LookupCells == {Blank, PyStr(<<" ">>), Cell("A"), PyStr(<<" ", "B", " ">>), PyNum(0)}

\* rows of up to MaxCols cells (rows may be ragged)
LookupRows == UNION {[1..n -> LookupCells] : n \in 0..MaxCols}

\* the grid of the specification's example
ExampleGrid ==
    << <<Cell("Alpha"), Cell("Beta")>>, <<Cell("x"), Cell("p")>>, <<Cell("y"), Blank>>,
       <<Blank, Cell("q")>> >>

LookupGrids == UNION {[1..n -> LookupRows] : n \in 0..MaxRows} \cup {ExampleGrid}

InitLookup == InitFor({Scenario(g, FALSE, FALSE, {BaseForm3}, {BaseForm4}) : g \in LookupGrids})

\* the first run, signed in: it reads the lookup range
LookupRead == run.act = "init" /\ Load /\ run'.exit = "done"

NextLookup == LookupRead

SpecLookup == InitLookup /\ [][NextLookup]_vars

(***************************************************************************)
(* SpecConfig: the first run of the script under every combination of      *)
(* sample secrets.                                                         *)
(***************************************************************************)
\* identifier secrets: not set, of the usual shape, too short, too long, with
\* a character outside the class, hyphens only, and followed by a newline
IdSamples ==
    {<<>>, Guid, Rep("a", 35), Rep("a", 37), Rep("a", 35) \o <<"g">>, Rep("-", 36),
     Guid \o <<"\n">>}

\* path secrets: not set, under each root, relative, and near misses
PathSamples ==
    {<<>>, GoodSecrets.WORKBOOK_PATH, SitesRoot \o <<"s", "/", "b">>,
     <<"m", "e", "/", "b">>, <<"/", "s", "i", "t", "e", "s">>,
     <<"/", "m", "e", "/", "d", "r", "i", "v", "e", "/", "b">>}

SecretSamples == [TENANT_ID : IdSamples, CLIENT_ID : IdSamples, WORKBOOK_PATH : PathSamples]

InitConfig ==
    InitFor({[Scenario(SmallGrid, FALSE, FALSE, {BaseForm3}, {BaseForm4}) EXCEPT !.secrets = sec] :
                sec \in SecretSamples})

\* the first run of the script
ConfigRun == run.act = "init" /\ Load

NextConfig == ConfigRun

SpecConfig == InitConfig /\ [][NextConfig]_vars

\* the lookup range has been read and the index built from it is cached
LookupDone == Has(session_state, "state_to_cities")

(***************************************************************************)
(* C6.  The options index of the specification: a column whose row-0 cell  *)
(* is blank or absent is skipped; otherwise the trimmed row-0 cell is the  *)
(* key, and the options are the later cells of the column, trimmed, blanks *)
(* discarded, in row order.                                                *)
(***************************************************************************)
\* a cell is blank when it is absent or trims to the empty text
IsBlank(v) == v = PyNone \/ Strip(StrOf(v)) = <<>>

NotBlank(v) == ~IsBlank(v)

SpecOptions(col) == StripAll(SelectSeq(Tail(col), NotBlank))

SpecKeys(values) ==
    IF values = <<>> THEN {}
    ELSE {Strip(StrOf(values[1][c])) : c \in {d \in 1..Len(values[1]) : NotBlank(values[1][d])}}

\* the last column whose trimmed header is k
SpecLastColumn(values, k) ==
    CHOOSE c \in 1..Len(values[1]) :
        /\ NotBlank(values[1][c]) /\ Strip(StrOf(values[1][c])) = k
        /\ \A d \in (c + 1)..Len(values[1]) :
              ~(NotBlank(values[1][d]) /\ Strip(StrOf(values[1][d])) = k)

SpecIndex(values) ==
    [k \in SpecKeys(values) |-> SpecOptions(Column(values, SpecLastColumn(values, k)))]

\* C6: for every input grid get_states_and_cities computes the options index
\* of the specification's algorithm (blank header: column skipped; blank
\* cells of a column skipped; the rest trimmed, in row order).
C6_IndexMatchesSpec ==
    LookupDone => session_state["state_to_cities"] = SpecIndex(workbook.grid)

(***************************************************************************)
(* C7.  Duplicate category labels.                                         *)
(***************************************************************************)
\* column c has a header the code accepts as a label
Labelled(values, c) ==
    /\ values # <<>>
    /\ c \in 1..Len(values[1])
    /\ Truthy(values[1][c])
    /\ Strip(StrOf(values[1][c])) # <<>>

Label(values, c) == Strip(StrOf(values[1][c]))

\* C7: when two columns have the same trimmed header, the index has one
\* entry for that label and its list is the one built from the later column.
C7_LastColumnWins ==
    LookupDone =>
        \A c1, c2 \in 1..MaxCols + 1 :
            (/\ c1 < c2
             /\ Labelled(workbook.grid, c1) /\ Labelled(workbook.grid, c2)
             /\ Label(workbook.grid, c1) = Label(workbook.grid, c2)
             /\ \A c3 \in (c2 + 1)..MaxCols + 1 :
                   ~(Labelled(workbook.grid, c3)
                     /\ Label(workbook.grid, c3) = Label(workbook.grid, c2)))
            => /\ Label(workbook.grid, c2) \in DOMAIN session_state["state_to_cities"]
               /\ session_state["state_to_cities"][Label(workbook.grid, c2)]
                    = CitiesOf(Column(workbook.grid, c2))

\* two columns headed A, the first with option A, the second with option B
C7_Witness ==
    /\ LookupDone
    /\ Len(workbook.grid) >= 2
    /\ workbook.grid[1] = <<Cell("A"), Cell("A")>>
    /\ workbook.grid[2] = <<Cell("A"), PyStr(<<" ", "B", " ">>)>>
    /\ session_state["state_to_cities"][<<"A">>][1] = <<"B">>

(***************************************************************************)
(* Claims about the wizard (Spec).                                         *)
(***************************************************************************)
Log == run.log
Ops(op) == {i \in 1..Len(Log) : Log[i].op = op}
HeldSid == Get(session_state, "excel_session_id", 0)
Sids == 1..MaxSid

InputCells ==
    {"C18", "C19", "F18", "F19", "F20", "F24", "F21", "F22", "F23", "F27", "F26", "C27", "C28"}

\* the summary of step 5 has been read completely
SummaryRead == DOMAIN run.summary = {SummaryCells[i] : i \in 1..Len(SummaryCells)}

\* C2: reads issued after a recalculate observe the writes issued earlier in
\* the session: every value the input summary of step 5 reads from an input
\* cell is the value last written to that cell under the session id, and
\* every input cell has been written by then.
C2_ReadAfterWrite ==
    /\ \A x \in DOMAIN run.summary \cap InputCells :
          /\ x \in DOMAIN workbook.written
          /\ run.summary[x] = workbook.written[x]
    /\ SummaryRead => InputCells \subseteq DOMAIN workbook.written

\* the summary shows values that were written over earlier ones
C2_Witness ==
    /\ SummaryRead
    /\ run.summary["C18"] = PyStr(<<"NY">>)
    /\ run.summary["C19"] = PyStr(<<"Albany">>)
    /\ run.summary["F19"] = PyNum(1)
    /\ run.summary["C27"] = PyNum(1)

\* a required number of the step-3 form is not greater than 0, or a required
\* selection is missing
Incomplete3(ss) ==
    \/ \E k \in {"bldg_area", "hours", "csw_sf"} : ~(Get(ss, k, PyNone).t = "num" /\ ss[k].n > 0)
    \/ \E k \in {"hvac", "existw", "fuel", "cool"} : Get(ss, k, PyNone) \in {PyNone, PyStr(<<>>)}

\* the CSW type or a rate of the step-4 form is missing
Incomplete4(ss) ==
    \/ Get(ss, "cswtyp", PyNone) \in {PyNone, PyStr(<<>>)}
    \/ \E k \in {"elec_rate", "gas_rate"} : Get(ss, k, PyNone).t # "num"

\* C3: when Next or Check WWR is pressed on step 3 with an incomplete form,
\* and when See Results is pressed on step 4 with an incomplete form, the
\* step stays the same, a warning is shown and the run issues no set_cell.
C3_Gating ==
    (\/ run.act \in {"check3", "next3"} /\ run.page = 3 /\ Incomplete3(session_state)
     \/ run.act = "next4" /\ run.page = 4 /\ Incomplete4(session_state))
    => /\ get_step(session_state) = run.step0
       /\ run.exit = "done"
       /\ run.msgs \cap {"warn_building", "warn_rates"} # {}
       /\ Ops("set_cell") = {}

\* Next pressed on step 3 with operating hours 0
C3_Witness ==
    /\ run.act = "next3" /\ run.page = 3
    /\ session_state["hours"] = PyNum(0)
    /\ session_state["bldg_area"] = PyNum(1)
    /\ "warn_building" \in run.msgs
    /\ get_step(session_state) = 3

\* the keys that hold what the wizard collected
CollectedKeys ==
    {"selected_state", "state_sel", "city_sel", "last_state_for_city", "pending_city",
     "bldg_area", "floors", "hvac", "existw", "fuel", "cool", "hours", "csw_sf",
     "cswtyp", "elec_rate", "gas_rate", "wwr_latest", "wwr_checked", "step4_applied"}

StartedOver == run.act = "startover" /\ run.exit = "rerun"

\* C4: after Start Over the wizard is at step 1 and no collected field is
\* left; when the Start Over run began with a sound credential cache, that
\* cache and the document reference are what they were, and the run that
\* follows, its cache still sound and its token not expired, starts no device
\* flow and resolves no path.
C4_Restart ==
    [][/\ (StartedOver' /\ run' # run) =>
            /\ get_step(session_state') = 1
            /\ DOMAIN session_state' \cap CollectedKeys = {}
            /\ run'.token0 \in {"valid", "expired"} =>
                  \A k \in keep : /\ Has(session_state, k) /\ Has(session_state', k)
                                   /\ session_state'[k] = session_state[k]
       /\ (StartedOver /\ run' # run /\ run'.token0 = "valid") =>
            /\ ~run'.device
            /\ \A i \in 1..Len(run'.log) : run'.log[i].op # "resolve"]_vars

\* Start Over has run after a whole pass through the wizard
C4_Witness ==
    /\ StartedOver
    /\ DOMAIN session_state = keep \cup {"step"}
    /\ "C28" \in DOMAIN workbook.cells

\* C5: every get_cell of a run comes after a calculate of the same run that
\* succeeded, with no set_cell between that calculate and the read.
C5_CalculateBeforeRead ==
    \A i \in Ops("get_cell") :
        \E j \in Ops("calculate") :
            /\ j < i /\ Log[j].ok
            /\ \A k \in (j + 1)..(i - 1) : Log[k].op # "set_cell"

\* Check Climate: the city written, one calculate, two reads
C5_Witness ==
    /\ run.act = "check2" /\ run.exit = "done"
    /\ Len(Log) = 4
    /\ Log[1].op = "set_cell" /\ Log[2].op = "calculate"
    /\ Log[3].op = "get_cell" /\ Log[4].op = "get_cell"

\* C8: a run that starts with a cached account whose token has not expired
\* gets its token silently: no device flow is started, nothing is shown for
\* it, and the cache is persisted again.
C8_SilentRefresh ==
    run.token0 = "valid" =>
        /\ run.silent /\ ~run.device /\ run.saved
        /\ run.msgs \cap {"info_device_code", "error_device_start", "error_auth"} = {}
        /\ run.exit \notin {"stop"}

\* the second of two runs in succession: the first one signed in
C8_Witness ==
    /\ run.token0 = "valid" /\ run.act = "load" /\ run.exit = "done"
    /\ run.silent /\ run.saved
    /\ ~tokenExpired

\* requests that carry the workbook-session-id header
SessionOps == {"set_cell", "get_cell", "calculate", "lookup", "closeSession"}

\* close requests for session s among the entries of the log from i on
ClosesFrom(s, i) ==
    Cardinality({j \in i..Len(Log) : Log[j].op = "closeSession" /\ Log[j].sid = s})

\* C9: every cell write, read, recalculate, lookup read and close request
\* carries a session id; it is the id create_session returned to the run,
\* which session state holds (until Start Over's close drops it), which the
\* server has opened, and for which no close request was issued before.
C9_SessionIdDiscipline ==
    /\ \A i \in 1..Len(Log) :
          Log[i].op \in SessionOps =>
              /\ Log[i].sid # 0
              /\ Log[i].sid = run.sid
              /\ Log[i].sid < workbook.nextSid
              /\ workbook.closeCnt[Log[i].sid] - ClosesFrom(Log[i].sid, i) = 0
    /\ (run.sid # 0 /\ run.act # "startover") => HeldSid = run.sid
    /\ HeldSid # 0 => workbook.closeCnt[HeldSid] = 0

\* after Start Over a cell is written under the second session
C9_Witness ==
    /\ run.sid = 2
    /\ workbook.closeCnt[1] = 1
    /\ \E i \in Ops("set_cell") : Log[i].sid = 2 /\ Log[i].ok

\* C10 as stated: the sessions that were opened and have not been closed are
\* never more than one.
C10_AtMostOneLive == Cardinality(workbook.open) <= 1

\* sessions the server has opened
Opened == {s \in Sids : s < workbook.nextSid}

\* C10 (amended): createSession is requested only when session state holds
\* no session id, so the sessions that were opened and for which no close
\* request has been issued are never more than one (the one session state
\* holds).  A session whose close request failed can stay live on the server
\* beside its successor.
C10_AtMostOneHeld ==
    /\ {s \in Opened : workbook.closeCnt[s] = 0} \subseteq {HeldSid}
    /\ Ops("createSession") # {} =>
          /\ Cardinality({i \in Ops("createSession") : Log[i].ok}) <= 1
          /\ \A s \in Opened : s # run.sid => workbook.closeCnt[s] >= 1

\* a second session has been opened after the first was closed
C10_Witness ==
    /\ workbook.nextSid = 3
    /\ workbook.closeCnt[1] = 1
    /\ workbook.open = {2}
    /\ HeldSid = 2

(***************************************************************************)
(* C11.  Back.                                                             *)
(***************************************************************************)
BackActs == {"back2", "back3", "back4", "back5"}

\* the run got as far as the step: sign-in did not halt it and no request
\* made before the step is rendered (resolve, createSession, lookup) failed
ReachedStep(r) == r.exit \notin {"stop", "crash"}

\* key k of session state is the same before and after
SameKey(k) ==
    /\ Has(session_state, k) <=> Has(session_state', k)
    /\ Has(session_state, k) => session_state'[k] = session_state[k]

\* C11: a run in which Back is pressed on step n in 2..5, whatever the field
\* values submitted with it, ends with the wizard at step n-1, issues no
\* set_cell, shows no validation warning, and leaves selected_state and
\* pending_city as they were.
C11_Retreat ==
    [][(run'.act \in BackActs /\ run' # run /\ ReachedStep(run')) =>
          /\ run'.exit = "rerun"
          /\ run'.step0 \in 2..5
          /\ get_step(session_state') = run'.step0 - 1
          /\ \A i \in 1..Len(run'.log) : run'.log[i].op # "set_cell"
          /\ run'.msgs \cap {"warn_city", "warn_building", "warn_rates"} = {}
          /\ SameKey("selected_state")
          /\ SameKey("pending_city")]_vars

\* Back pressed on step 3 with the operating hours of the form at 0
C11_Witness ==
    /\ run.act = "back3" /\ run.exit = "rerun"
    /\ session_state["hours"] = PyNum(0)
    /\ get_step(session_state) = 2
    /\ Has(session_state, "pending_city")

(***************************************************************************)
(* C12.  The step is a linear index.                                       *)
(***************************************************************************)
NextActs == {"next1", "next2", "next3", "next4"}

\* C12: the step is always in 1..5; a transition leaves it unchanged, or adds
\* exactly 1 (only a Next/See Results run ending in a rerun), or subtracts
\* exactly 1 (only a Back run), or resets it to 1 (only Start Over, from step
\* 5); no run at step 5 advances and no run at step 1 retreats.
C12_LinearStep ==
    [][LET s == get_step(session_state)
           t == get_step(session_state')
       IN  /\ s \in 1..5 /\ t \in 1..5
           /\ t \in {s, s + 1, s - 1, 1}
           /\ t = s + 1 => (run'.act \in NextActs /\ run'.exit = "rerun")
           /\ t = s - 1 => run'.act \in BackActs
           /\ t \notin {s, s + 1, s - 1} => (run'.act = "startover" /\ s = 5 /\ t = 1)
           /\ run'.act = "startover" => t \in {1, s}]_vars

\* Start Over has taken the wizard from step 5 back to step 1
C12_Witness ==
    /\ run.act = "startover" /\ run.step0 = 5
    /\ get_step(session_state) = 1
    /\ run.exit = "rerun"
    /\ workbook.nextSid = 2

(***************************************************************************)
(* C13.  The document reference is resolved once.                          *)
(***************************************************************************)
\* the path-resolution requests of a run
Resolves(r) == {i \in 1..Len(r.log) : r.log[i].op = "resolve"}

\* C13: a run that starts with drive_item cached sends no path-resolution
\* request and leaves the cached reference as it was (also a Start Over run,
\* and the runs after it); a run that starts without it sends at most one,
\* before any other request, and caches the reference exactly when that
\* request succeeded.
C13_ResolvedOnce ==
    [][run' # run =>
          /\ Has(session_state, "drive_item") =>
                /\ Resolves(run') = {}
                /\ Has(session_state', "drive_item")
                /\ session_state'["drive_item"] = session_state["drive_item"]
          /\ ~Has(session_state, "drive_item") =>
                /\ Resolves(run') \subseteq {1}
                /\ Has(session_state', "drive_item") <=>
                      (Resolves(run') = {1} /\ run'.log[1].ok)]_vars

\* the run after Start Over opens a new session without resolving the path
C13_Witness ==
    /\ run.sid = 2
    /\ \E i \in Ops("createSession") : Log[i].ok
    /\ Ops("resolve") = {}
    /\ Has(session_state, "drive_item")
    /\ workbook.closeCnt[1] = 1

(***************************************************************************)
(* C14.  The configuration gate.                                           *)
(***************************************************************************)
\* identifier-shaped: 36 characters, each a hexadecimal digit or a hyphen
IdentifierShaped(s) == Len(s) = 36 /\ \A i \in 1..36 : s[i] \in HexOrHyphen

\* an absolute location: under the user's drive root or under a site
AbsoluteLocation(s) == startswith(s, MeDriveRoot) \/ startswith(s, SitesRoot)

\* the names of the malformed settings
Malformed(secrets) ==
    {k \in {"TENANT_ID", "CLIENT_ID"} : ~IdentifierShaped(secrets[k])}
    \cup (IF AbsoluteLocation(secrets.WORKBOOK_PATH) THEN {} ELSE {"WORKBOOK_PATH"})

\* C14: a run under a malformed TENANT_ID, CLIENT_ID or WORKBOOK_PATH halts
\* before token acquisition and before any request, and reports exactly the
\* names of the malformed settings; a run under well-formed settings is not
\* halted by the gate.
C14_ConfigGate ==
    run.act = "load" =>
        IF Malformed(scenario.secrets) = {}
        THEN run.bad = <<>> /\ "error_secrets" \notin run.msgs
        ELSE /\ run.exit = "stop" /\ "error_secrets" \in run.msgs
             /\ Log = <<>> /\ ~run.silent /\ ~run.device
             /\ {run.bad[i] : i \in 1..Len(run.bad)} = Malformed(scenario.secrets)
             /\ Len(run.bad) = Cardinality(Malformed(scenario.secrets))

(***************************************************************************)
(* C15.  Failed cell operations.                                           *)
(***************************************************************************)
CellOps == {"set_cell", "get_cell", "calculate"}

\* C15: when a cell write, read or recalculate of a run is answered with an
\* error, at whichever step, the run does not end in an unhandled exception:
\* the error is caught and shown as an HTTP error message.
C15_FailuresCaught ==
    (\E i \in 1..Len(Log) : Log[i].op \in CellOps /\ ~Log[i].ok)
    => /\ run.exit # "crash"
       /\ "error_http" \in run.msgs

(***************************************************************************)
(* C16.  close_session is best-effort.                                     *)
(***************************************************************************)
\* C16: in a run in which Start Over is pressed on the results page, the
\* close request is sent once for the session held and, whether it succeeds
\* or is answered with an error, nothing is raised: the session id is gone
\* from session state and the run ends with the step reset to 1 and a rerun.
C16_BestEffortClose ==
    (run.act = "startover" /\ run.page = 5) =>
        /\ run.exit = "rerun" /\ run.error = ""
        /\ get_step(session_state) = 1
        /\ ~Has(session_state, "excel_session_id")
        /\ Cardinality(Ops("closeSession")) = 1
        /\ \A i \in Ops("closeSession") : Log[i].sid = run.sid /\ i = Len(Log)

\* Start Over has completed although its close request failed
C16_Witness ==
    /\ run.act = "startover" /\ run.page = 5
    /\ \E i \in Ops("closeSession") : ~Log[i].ok
    /\ run.sid \in workbook.open
    /\ get_step(session_state) = 1
    /\ HeldSid = 0

(***************************************************************************)
(* C17.  Token fallback.                                                   *)
(***************************************************************************)
\* the run got past the configuration gate and asked for a token
AskedToken == run.act # "init" /\ run.bad = <<>>

\* C17: in a run that asks for a token, when no account is cached, or the
\* silent acquisition for the cached account returns no result or a result
\* without access_token, the device-code flow is initiated; when the flow does
\* not start or ends without a token, the run halts with the authentication
\* error shown and sends no request.
C17_TokenFallback ==
    AskedToken =>
        /\ (~run.silent \/ run.res \in {"none", "error"}) => run.device
        /\ run.msgs \cap {"error_device_start", "error_auth"} # {} =>
              (run.exit = "stop" /\ Log = <<>>)

(***************************************************************************)
(* C18.  A corrupt or absent credential cache, a cache that cannot be      *)
(* serialized.                                                             *)
(***************************************************************************)
\* acquire_token returned a token: create_session was entered
TokenObtained == run.sid # 0 \/ Log # <<>>

\* C18: a run that starts with no stored cache, or with a corrupt one, makes
\* no silent attempt and initiates the device-code flow, and gets its token
\* unless that flow itself fails; a run in which serializing the cache fails
\* still gets its token, and what was stored stays as it was.
C18_CacheFaultsTolerated ==
    AskedToken =>
        /\ run.token0 \in {"none", "corrupt"} =>
              /\ ~run.silent /\ run.device
              /\ run.error # "TypeError"
              /\ TokenObtained <=> run.msgs \cap {"error_device_start", "error_auth"} = {}
        /\ (run.saved /\ ~run.serialized) =>
              /\ TokenObtained
              /\ run.token0 = "corrupt" => session_state["msal_cache_serialized"] = "corrupt"
              /\ run.token0 = "none" => ~Has(session_state, "msal_cache_serialized")

\* a run that started with a corrupt cache signed in through the device flow
\* and could not serialize the new cache
C18_Witness ==
    /\ run.token0 = "corrupt" /\ run.device
    /\ run.saved /\ ~run.serialized
    /\ run.exit = "done" /\ run.sid # 0

(***************************************************************************)
(* C19.  Labels of the options index.                                      *)
(***************************************************************************)
\* a text that is not empty and has no whitespace at either end
TrimmedNonEmpty(x) == x # <<>> /\ Strip(x) = x

\* C19: for every input grid, every key of the options index and every
\* option label of every list is a trimmed non-empty text.
C19_LabelsTrimmedNonEmpty ==
    LookupDone =>
        \A k \in DOMAIN session_state["state_to_cities"] :
            /\ TrimmedNonEmpty(k)
            /\ \A i \in 1..Len(session_state["state_to_cities"][k]) :
                  TrimmedNonEmpty(session_state["state_to_cities"][k][i])

(***************************************************************************)
(* C20.  The deferred city commit.                                         *)
(***************************************************************************)
\* C20: Next on step 2 sends no request and records the chosen city as
\* pending_city; in a See Results run the write of C19 comes before every
\* other write, and pending_city is still there when that write failed;
\* whenever step 5 is rendered, no pending_city is left and cell C19 holds the
\* city most recently chosen with Next on step 2.
C20_DeferredCityCommit ==
    /\ (run.act = "next2" /\ run.exit = "rerun") =>
          /\ Log = <<>>
          /\ Truthy(run.confirmed)
          /\ Get(session_state, "pending_city", PyNone) = run.confirmed
    /\ run.act = "next4" =>
          \A i \in Ops("set_cell") :
              Log[i].addr = "C19" =>
                  /\ \A j \in Ops("set_cell") : j >= i
                  /\ ~Log[i].ok => Has(session_state, "pending_city")
                  /\ Log[i].ok => ~Has(session_state, "pending_city")
    /\ run.page = 5 =>
          /\ ~Has(session_state, "pending_city")
          /\ "C19" \in DOMAIN workbook.cells
          /\ workbook.cells["C19"] = run.confirmed

\* the results are shown for a city that is not the first of its list
C20_Witness ==
    /\ run.page = 5 /\ run.act = "load"
    /\ run.confirmed = PyStr(<<"Dallas">>)
    /\ workbook.cells["C19"] = PyStr(<<"Dallas">>)
    /\ ~Has(session_state, "pending_city")

(***************************************************************************)
(* C22.  The categories offered and the keys of the options index.         *)
(***************************************************************************)
\* no element occurs twice in the list
NoDuplicates(seq) == \A i, j \in 1..Len(seq) : seq[i] = seq[j] => i = j

\* C22: for every input grid, the list of categories offered has no
\* duplicates, has as many entries as the options index has keys, and its
\* entries are exactly those keys.
C22_CategoriesAreKeys ==
    LookupDone =>
        /\ NoDuplicates(session_state["states_list"])
        /\ Len(session_state["states_list"])
              = Cardinality(DOMAIN session_state["state_to_cities"])
        /\ {session_state["states_list"][i] : i \in 1..Len(session_state["states_list"])}
              = DOMAIN session_state["state_to_cities"]

(***************************************************************************)
(* C21.  The state and the city of the results.                            *)
(***************************************************************************)
\* the cell holds a text
HoldsText(addr) == addr \in DOMAIN workbook.cells /\ workbook.cells[addr].t = "str"

\* the option list the lookup range gives the state held in C18
OptionsOfC18 ==
    Get(BuildOptions(workbook.grid).state_to_cities, workbook.cells["C18"].s, <<>>)

\* C21: whenever step 5 is rendered, C18 holds a state and C19 a city of the
\* option list of that state, and a city has been chosen with Next on step 2
\* since a state was last applied on step 1.
C21_CityOfState ==
    run.page = 5 =>
        /\ HoldsText("C18") /\ HoldsText("C19")
        /\ Contains(OptionsOfC18, workbook.cells["C19"].s)
        /\ ~run.stale

\* the results are shown for the second state and its city
C21_Witness ==
    /\ run.page = 5 /\ run.act = "load"
    /\ workbook.cells["C18"] = PyStr(<<"NY">>)
    /\ workbook.cells["C19"] = PyStr(<<"Albany">>)
    /\ session_state["last_state_for_city"] = PyStr(<<"NY">>)

(***************************************************************************)
(* C23.  A cell write that fails during a step transition.                 *)
(***************************************************************************)
\* the runs that write cells and then advance the step
WritingActs == {"next1", "next3", "next4"}

\* what the wizard keeps besides the values of its widgets
WizardKeys ==
    {"step", "selected_state", "last_state_for_city", "pending_city", "wwr_latest",
     "wwr_checked", "step4_applied"}

\* a write of run r to the cell was answered with an error / was accepted
FailedWrite(r, addr) ==
    \E i \in 1..Len(r.log) : r.log[i].op = "set_cell" /\ r.log[i].addr = addr /\ ~r.log[i].ok
AcceptedWrite(r, addr) ==
    \E i \in 1..Len(r.log) : r.log[i].op = "set_cell" /\ r.log[i].addr = addr /\ r.log[i].ok

\* a step transition of run r has met a failed cell write
FailedTransition(r) ==
    /\ r.act \in WritingActs
    /\ \E i \in 1..Len(r.log) : r.log[i].op = "set_cell" /\ ~r.log[i].ok

\* C23 as stated: a step transition that meets a failed cell write leaves
\* what the wizard keeps as it was: the step and selected_state are not
\* changed, pending_city is still present after a failed write of step 4, and
\* after a failed write of step 3 or 4 step4_applied is not set.
C23_StateAsItWas ==
    [][FailedTransition(run') =>
          /\ \A k \in WizardKeys : SameKey(k)
          /\ (run'.act = "next4" /\ Has(session_state, "pending_city"))
                => Has(session_state', "pending_city")
          /\ run'.act \in {"next3", "next4"} => ~Has(session_state', "step4_applied")]_vars

\* C23: a step transition that meets a failed cell write does not change the
\* step, selected_state, the WWR keys or step4_applied (which stays set when
\* an earlier See Results had set it); pending_city is unchanged too when the
\* write of C19 is the one that failed, and is removed only when the write of
\* C19 was accepted and a later write of the same run failed.
C23_FailedTransition ==
    [][FailedTransition(run') =>
          /\ get_step(session_state') = get_step(session_state)
          /\ get_step(session_state') = run'.step0
          /\ \A k \in WizardKeys \ {"pending_city"} : SameKey(k)
          /\ FailedWrite(run', "C19") =>
                /\ Has(session_state', "pending_city")
                /\ SameKey("pending_city")
          /\ ~SameKey("pending_city") =>
                /\ run'.act = "next4"
                /\ AcceptedWrite(run', "C19")
                /\ ~Has(session_state', "pending_city")]_vars

\* the deferred write of the city has failed and the city is still pending
C23_Witness ==
    /\ run.act = "next4" /\ run.exit = "crash"
    /\ FailedWrite(run, "C19")
    /\ Get(session_state, "pending_city", PyNone) = PyStr(<<"Austin">>)
    /\ get_step(session_state) = 4
    /\ ~Has(session_state, "step4_applied")

====
